---- MODULE Spec2Model ----
(***************************************************************************)
(* Model of scripts/preprocessing/augment_data.py (class AudioAugmenter):  *)
(* the signal transforms (add_noise, change_volume, time_stretch), the     *)
(* per-sample policy augment_sample and the dataset loop augment_all.      *)
(*                                                                         *)
(* An ndarray is a record                                                  *)
(*   [ndim, cols, rows, den, nan]                                          *)
(* ndim = 1: shape (n,),   rows is a sequence of n one-element rows;       *)
(* ndim = 2: shape (n,c),  rows is a sequence of n rows of c elements      *)
(*           (soundfile returns frames x channels for multi-channel).      *)
(* Elements are integers over the common denominator den (floats are       *)
(* modelled by exact rationals); nan = TRUE says every element is NaN.     *)
(* len(a) of the code is Len(a.rows).                                      *)
(***************************************************************************)
EXTENDS Integers, Sequences, FiniteSets, TLC

VARIABLES
    positive_files,    \* augment_all: list(self.positive_dir.glob("*.wav"))
    background_files,  \* augment_all: list(self.background_dir.rglob("*.wav"))
    pc,                \* position of the (single) thread of control
    i,                 \* augment_all: index of the for loop over positive_files
    total_augmented,   \* augment_all: total_augmented
    augmented_dir,     \* files of self.augmented_dir: output name -> array written
    report,            \* what augment_all logged at its end
    audio,             \* augment_sample: audio (the loaded source array)
    sr,                \* augment_sample: sr
    count,             \* augment_sample: count
    k,                 \* augment_sample: position in the current for loop
    chosen,            \* augment_sample: random.sample(background_files, ...)
    exception,         \* the exception that left augment_all, or "none"
    loaded,            \* history: the array load_audio returned to this job
    attempts,          \* history: the variants this job attempted, in order
    calls,             \* history: augment_sample calls of this run, with result
    anomalies,         \* number of non-baseline environment answers so far
    u_fn, u_args, u_ret \* unit harness: function applied, its inputs, its result

progVars == <<positive_files, background_files, pc, i, total_augmented,
              augmented_dir, report, audio, sr, count, k, chosen, exception,
              loaded, attempts, calls, anomalies>>
unitVars == <<u_fn, u_args, u_ret>>
vars == <<progVars, unitVars>>

-----------------------------------------------------------------------------
(* Bounds of the model *)

MaxPositive == 2

MaxBackground == 4

MaxAnomalies == 2

MaxLen == 3

MaxSample == 1

(* Program constants *)

SnrDb == 15

MaxNoiseVariants == 3

VolFactors == <<7, 13>>      \* [0.7, 1.3], in tenths

SpeedFactors == <<9, 11>>    \* [0.9, 1.1], in tenths

-----------------------------------------------------------------------------
(* numpy arrays *)

Min(a, b) == IF a < b THEN a ELSE b

Max(a, b) == IF a > b THEN a ELSE b

CeilDiv(a, b) == (a + b - 1) \div b

Mono(s) ==
    [ndim |-> 1, cols |-> 1, rows |-> [j \in 1..Len(s) |-> <<s[j]>>],
     den |-> 1, nan |-> FALSE]

Stereo(r) ==
    [ndim |-> 2, cols |-> 2, rows |-> r, den |-> 1, nan |-> FALSE]

np_len(a) == Len(a.rows)

\* a[lo:hi] on the first axis (0-based, hi exclusive, clamped as Python does)
np_slice(a, lo, hi) ==
    [a EXCEPT !.rows = SubSeq(a.rows, lo + 1, Min(hi, Len(a.rows)))]

\* the row `row` repeated reps times along itself
RepeatRow(row, reps) ==
    [j \in 1..(Len(row) * reps) |-> row[((j - 1) % Len(row)) + 1]]

\* np.tile(a, reps) with an integer reps: reps is promoted to (1,)*(ndim-1) + (reps,),
\* so that the LAST axis is the one repeated
np_tile(a, reps) ==
    IF a.ndim = 1
    THEN [a EXCEPT !.rows = [j \in 1..(Len(a.rows) * reps) |->
                                a.rows[((j - 1) % Len(a.rows)) + 1]]]
    ELSE [a EXCEPT !.rows = [j \in 1..Len(a.rows) |-> RepeatRow(a.rows[j], reps)],
                   !.cols = a.cols * reps]

\* a[indices] for an integer index array (0-based): gathers rows, a new array
np_take(a, indices) ==
    [a EXCEPT !.rows = [j \in 1..Len(indices) |-> a.rows[indices[j] + 1]]]

\* the shape as numpy broadcasting sees it, padded on the left to two axes
Shape2(a) == IF a.ndim = 1 THEN <<1, Len(a.rows)>> ELSE <<Len(a.rows), a.cols>>

BroadcastDimOK(x, y) == x = y \/ x = 1 \/ y = 1

BroadcastDim(x, y) == IF x = 1 THEN y ELSE x

BroadcastOK(a, b) ==
    /\ BroadcastDimOK(Shape2(a)[1], Shape2(b)[1])
    /\ BroadcastDimOK(Shape2(a)[2], Shape2(b)[2])

\* element (r, c) (1-based) of a broadcast to two axes
At2(a, r, c) ==
    IF a.ndim = 1
    THEN a.rows[IF Len(a.rows) = 1 THEN 1 ELSE c][1]
    ELSE a.rows[IF Len(a.rows) = 1 THEN 1 ELSE r][IF a.cols = 1 THEN 1 ELSE c]

\* the rows of a broadcast against b, in the layout of the result array
BroadcastRows(a, b) ==
    LET nr == BroadcastDim(Shape2(a)[1], Shape2(b)[1])
        nc == BroadcastDim(Shape2(a)[2], Shape2(b)[2])
    IN  IF Max(a.ndim, b.ndim) = 1
        THEN [c \in 1..nc |-> <<At2(a, 1, c)>>]
        ELSE [r \in 1..nr |-> [c \in 1..nc |-> At2(a, r, c)]]

\* number of elements of the array
np_size(a) == IF a.ndim = 1 THEN Len(a.rows) ELSE Len(a.rows) * a.cols

\* np.mean(a ** 2) == 0.0 (an empty array has mean NaN, which is not 0)
PowerIsZero(a) ==
    /\ np_size(a) > 0
    /\ \A r \in 1..Len(a.rows) : \A c \in 1..Len(a.rows[r]) : a.rows[r][c] = 0

-----------------------------------------------------------------------------
(* The transforms. Each returns [ret, audio]: the array returned and the    *)
(* contents of the caller's array `audio` after the call.                   *)

\* mutant of CropStarts: random.randint(0, len(noise))
CropStarts_whole(noise, L) == 0..np_len(noise)

\* the offsets random.randint(0, len(noise) - len(audio)) may return
CropStarts(noise, L) == 0..(np_len(noise) - L)

\* add_noise, lines 97-105: noise brought to the length L = len(audio)
align(noise, L, start) ==
    IF np_len(noise) < L
    THEN IF np_len(noise) = 0
         THEN [raised |-> "ZeroDivisionError", ret |-> noise]
         ELSE [raised |-> "none",
               ret |-> np_slice(np_tile(noise, CeilDiv(L, np_len(noise))), 0, L)]
    ELSE [raised |-> "none", ret |-> np_slice(noise, start, start + L)]

\* add_noise, lines 107-116: audio + scale * noise, for the aligned noise
mix(a, noise, snr_db) ==
    IF ~BroadcastOK(a, noise)
    THEN [raised |-> "ValueError", ret |-> a, audio |-> a]
    ELSE [raised |-> "none",
          ret |-> [ndim |-> Max(a.ndim, noise.ndim),
                   cols |-> IF Max(a.ndim, noise.ndim) = 1 THEN 1
                            ELSE BroadcastDim(Shape2(a)[2], Shape2(noise)[2]),
                   rows |-> BroadcastRows(a, noise),
                   den |-> a.den,
                   noise |-> BroadcastRows(noise, a),
                   noise_den |-> noise.den,
                   snr_db |-> snr_db,
                   \* scale = sqrt(signal_power / (snr_linear * 0.0)) is inf or
                   \* nan, and scale * 0.0 is nan at every element
                   nan |-> PowerIsZero(noise)],
          audio |-> a]

add_noise(a, noise, snr_db, start) ==
    LET al == align(noise, np_len(a), start)
    IN  IF al.raised # "none"
        THEN [raised |-> al.raised, ret |-> a, audio |-> a]
        ELSE mix(a, al.ret, snr_db)

\* mutant of change_volume: audio *= factor, scaling the caller's array in place
change_volume_inplace(a, factor10) ==
    LET scaled == [a EXCEPT !.rows = [r \in 1..Len(a.rows) |->
                                 [c \in 1..Len(a.rows[r]) |-> a.rows[r][c] * factor10]],
                            !.den = a.den * 10]
    IN  [ret |-> scaled, audio |-> scaled]

\* change_volume: audio * factor, factor given in tenths
change_volume(a, factor10) ==
    [ret |-> [a EXCEPT !.rows = [r \in 1..Len(a.rows) |->
                                    [c \in 1..Len(a.rows[r]) |-> a.rows[r][c] * factor10]],
                       !.den = a.den * 10],
     audio |-> a]

\* mutant of np_arange10: np.arange(0, n - 1, rate)
np_arange10_short(n, rate10) ==
    [j \in 1..CeilDiv((n - 1) * 10, rate10) |-> (j - 1) * rate10]

\* np.arange(0, n, rate): 0, rate, 2*rate, ... below n; values and rate in tenths
np_arange10(n, rate10) == [j \in 1..CeilDiv(n * 10, rate10) |-> (j - 1) * rate10]

\* time_stretch: indices[indices < len(audio)].astype(int), then audio[indices]
time_stretch(a, rate10) ==
    LET indices == np_arange10(np_len(a), rate10)
        kept == SelectSeq(indices, LAMBDA x : x < np_len(a) * 10)
        ints == [j \in 1..Len(kept) |-> kept[j] \div 10]
    IN  [ret |-> np_take(a, ints), audio |-> a]

\* augment_sample, lines 192-198: np.interp(np.linspace(0, n, m), np.arange(n), noise)
\* with m = int(n * sr / noise_sr). np.interp takes one-dimensional, non-empty
\* sample points only. Point j (0-based) lies at x = j*n/(m-1); beyond n-1 the
\* last sample is returned. Values are kept over the denominator (m-1).
resample(noise, noise_sr, target_sr) ==
    LET n == np_len(noise)
        m == (n * target_sr) \div noise_sr
        d == IF m >= 2 THEN m - 1 ELSE 1
        fp(x) == noise.rows[x][1]
        val(j) == LET num == j * n
                      lo == num \div d
                  IN  IF num >= (n - 1) * d
                      THEN fp(n) * d
                      ELSE fp(lo + 1) * d + (num % d) * (fp(lo + 2) - fp(lo + 1))
    IN  IF noise.ndim # 1 \/ n = 0
        THEN [raised |-> "ValueError", ret |-> noise]
        ELSE [raised |-> "none",
              ret |-> [ndim |-> 1, cols |-> 1,
                       rows |-> [j \in 1..m |-> <<val(j - 1)>>],
                       den |-> noise.den * d, nan |-> FALSE]]

-----------------------------------------------------------------------------
(* The files: what soundfile answers                                        *)

None == [ndim |-> 0, cols |-> 0, rows |-> <<>>, den |-> 1, nan |-> FALSE]

Unreadable == [raises |-> TRUE, data |-> None, sr |-> 0]

Wav(data, rate) == [raises |-> FALSE, data |-> data, sr |-> rate]

\* the baseline scenario: a 16 kHz mono sample, a shorter 16 kHz mono noise
BaselineSample == Wav(Mono(<<1, 2, 3>>), 16000)

BaselineNoise == Wav(Mono(<<1>>), 16000)

\* what sf.read may answer for a positive sample (the answers are listed, not
\* ordered by the program: the list only fixes the order of enumeration)
PositiveReads ==
    << BaselineSample,
       Unreadable,
       Wav(Stereo(<<<<1, 2>>, <<3, 4>>>>), 16000),   \* two channels
       Wav(Mono(<<>>), 16000) >>                     \* no frames

\* what sf.read may answer for a background file
NoiseReads ==
    << BaselineNoise,
       Unreadable,
       Wav(Mono(<<>>), 16000),                       \* no frames
       Wav(Mono(<<0, 0>>), 16000),                   \* silent
       Wav(Mono(<<1, 0, 2, 1>>), 16000),             \* longer than the sample
       Wav(Stereo(<<<<1, 2>>, <<0, 1>>, <<2, 2>>>>), 16000), \* two channels, long
       Wav(Stereo(<<<<1, 1>>>>), 16000),             \* two channels, short
       Wav(Mono(<<1, 2>>), 8000),                    \* another rate
       Wav(Mono(<<1>>), 48000) >>                    \* another rate, resampled to nothing

\* sf.write returns, or raises
WriteAnswers == <<TRUE, FALSE>>

Cost(answer, baseline) == IF answer = baseline THEN 0 ELSE 1

\* load_audio: (data, sr), or (None, None) when sf.read raises
load_audio(answer) ==
    IF answer.raises THEN [data |-> None, sr |-> 0]
    ELSE [data |-> answer.data, sr |-> answer.sr]

\* save_audio: sf.write succeeds (the file now holds the array) or raises (False)
save_audio(dir, arr, output_path, writes) ==
    [dir |-> IF writes THEN (output_path :> arr) @@ dir ELSE dir, ret |-> writes]

\* f"{output_prefix}_{base_name}_<tag>.wav" in self.augmented_dir
OutputPath(output_prefix, base_name, tag) ==
    [prefix |-> output_prefix, base_name |-> base_name, tag |-> tag]

VolTags == <<"vol0.7", "vol1.3">>

SpeedTags == <<"speed0.9", "speed1.1">>

\* mutant of NoiseTags: f"..._noise.wav", the index i left out of the name
NoiseTags_noindex == <<"noise", "noise", "noise">>

NoiseTags == <<"noise0", "noise1", "noise2">>

\* the stems of the positive files: distinct, as the files of one directory are,
\* and chosen so that one stem continues another with a variant tag
Stems == <<"a", "a_original", "a_noise0", "b">>

\* audio_path.stem of positive file f
base_name(f) == IF f \in DOMAIN Stems THEN Stems[f] ELSE ToString(f)

\* the file name the f-string of lines 168, 175, 182, 201 formats for a path
FileName(p) == p.prefix \o "_" \o base_name(p.base_name) \o "_" \o p.tag \o ".wav"

\* random.sample(population, n): n elements at distinct positions, in any order
random_sample(population, n) ==
    { [j \in 1..n |-> population[f[j]]] :
        f \in { g \in [1..n -> 1..Len(population)] :
                  \A x, y \in 1..n : x # y => g[x] # g[y] } }

\* mutant of NoPositiveSamples: the empty-directory check left out
NoPositiveSamples_unchecked(files) == FALSE

\* augment_all, line 221: `if not positive_files`
NoPositiveSamples(files) == files = <<>>

-----------------------------------------------------------------------------
(* The program: main() -> augment_all() -> augment_sample() per sample      *)

NoReport == [kind |-> "none", originals |-> 0, augmented |-> 0, size |-> 0]

UnitIdle ==
    /\ u_fn = "none"
    /\ u_args = [buf |-> None, L |-> 0, rate10 |-> 10]
    /\ u_ret = [raised |-> "none", ret |-> None, start |-> 0]

\* the state when augment_all is entered, the two directories listed; `used` of
\* the MaxAnomalies deviations of the environment are not available to the run
ProgInitFrom(npos, nbg, used) ==
    /\ positive_files = [j \in 1..npos |-> j]
    /\ background_files = [j \in 1..nbg |-> j]
    /\ pc = "augment_all"
    /\ i = 0
    /\ total_augmented = 0
    /\ augmented_dir = << >>
    /\ report = NoReport
    /\ audio = None
    /\ sr = 0
    /\ count = 0
    /\ k = 0
    /\ chosen = << >>
    /\ exception = "none"
    /\ loaded = None
    /\ attempts = << >>
    /\ calls = << >>
    /\ anomalies = used

ProgInit(npos, nbg) == ProgInitFrom(npos, nbg, 0)

Init ==
    /\ \E npos \in 0..MaxPositive, nbg \in 0..MaxBackground : ProgInit(npos, nbg)
    /\ UnitIdle

\* an entry of the history of one job
Attempt(tag, transform, source, input, noise, outcome) ==
    [tag |-> tag, transform |-> transform, source |-> source, input |-> input,
     noise |-> noise, outcome |-> outcome]

SaveOutcome(ok) == IF ok THEN "written" ELSE "save_failed"

\* the environment may deviate from the baseline MaxAnomalies times in a run
Within(cost) == anomalies + cost <= MaxAnomalies

\* lines 213-226: list the directories; with no positive sample, report and return
augment_all_start ==
    /\ pc = "augment_all"
    /\ IF NoPositiveSamples(positive_files)
       THEN /\ report' = [NoReport EXCEPT !.kind = "empty"]
            /\ pc' = "done"
            /\ UNCHANGED <<i, total_augmented>>
       ELSE /\ total_augmented' = 0
            /\ i' = 1
            /\ pc' = "loop"
            /\ UNCHANGED report
    /\ UNCHANGED <<positive_files, background_files, augmented_dir, audio, sr, count,
                   k, chosen, exception, loaded, attempts, calls, anomalies>>
    /\ UNCHANGED unitVars

\* lines 227-229 and 160-165: the next sample is passed to augment_sample, which
\* loads it; a sample that does not load returns 0, which line 230 adds
augment_sample_load ==
    /\ pc = "loop"
    /\ i <= Len(positive_files)
    /\ \E n \in 1..Len(PositiveReads) :
         LET answer == PositiveReads[n]
             got == load_audio(answer)
         IN  /\ Within(Cost(answer, BaselineSample))
             /\ anomalies' = anomalies + Cost(answer, BaselineSample)
             /\ attempts' = << >>
             /\ chosen' = << >>
             /\ k' = 0
             /\ IF got.data = None
                THEN /\ total_augmented' = total_augmented + 0
                     /\ calls' = Append(calls, [file |-> positive_files[i],
                                                loaded |-> FALSE, ret |-> 0])
                     /\ i' = i + 1
                     /\ pc' = "loop"
                     /\ audio' = None
                     /\ sr' = 0
                     /\ loaded' = None
                     /\ UNCHANGED count
                ELSE /\ audio' = got.data
                     /\ sr' = got.sr
                     /\ loaded' = got.data
                     /\ count' = 0
                     /\ pc' = "original"
                     /\ UNCHANGED <<total_augmented, calls, i>>
    /\ UNCHANGED <<positive_files, background_files, augmented_dir, report, exception>>
    /\ UNCHANGED unitVars

\* lines 167-170: the unmodified copy
save_original ==
    /\ pc = "original"
    /\ \E w \in 1..Len(WriteAnswers) :
         LET writes == WriteAnswers[w]
             path == OutputPath("aug", positive_files[i], "original")
             saved == save_audio(augmented_dir, audio, path, writes)
         IN  /\ Within(Cost(writes, TRUE))
             /\ anomalies' = anomalies + Cost(writes, TRUE)
             /\ augmented_dir' = saved.dir
             /\ count' = IF saved.ret THEN count + 1 ELSE count
             /\ attempts' = Append(attempts, Attempt("original", "copy", 0, audio,
                                                     None, SaveOutcome(saved.ret)))
    /\ k' = 1
    /\ pc' = "volume"
    /\ UNCHANGED <<positive_files, background_files, i, total_augmented, report,
                   audio, sr, chosen, exception, loaded, calls>>
    /\ UNCHANGED unitVars

\* lines 172-177: one iteration of the loop over [0.7, 1.3]
volume_variant ==
    /\ pc = "volume"
    /\ \E w \in 1..Len(WriteAnswers) :
         LET writes == WriteAnswers[w]
             done == change_volume(audio, VolFactors[k])
             path == OutputPath("aug", positive_files[i], VolTags[k])
             saved == save_audio(augmented_dir, done.ret, path, writes)
         IN  /\ Within(Cost(writes, TRUE))
             /\ anomalies' = anomalies + Cost(writes, TRUE)
             /\ audio' = done.audio
             /\ augmented_dir' = saved.dir
             /\ count' = IF saved.ret THEN count + 1 ELSE count
             /\ attempts' = Append(attempts, Attempt(VolTags[k], "change_volume", 0,
                                                     audio, None, SaveOutcome(saved.ret)))
    /\ IF k < Len(VolFactors)
       THEN k' = k + 1 /\ pc' = "volume"
       ELSE k' = 1 /\ pc' = "speed"
    /\ UNCHANGED <<positive_files, background_files, i, total_augmented, report,
                   sr, chosen, exception, loaded, calls>>
    /\ UNCHANGED unitVars

\* lines 179-184: one iteration of the loop over [0.9, 1.1]
speed_variant ==
    /\ pc = "speed"
    /\ \E w \in 1..Len(WriteAnswers) :
         LET writes == WriteAnswers[w]
             done == time_stretch(audio, SpeedFactors[k])
             path == OutputPath("aug", positive_files[i], SpeedTags[k])
             saved == save_audio(augmented_dir, done.ret, path, writes)
         IN  /\ Within(Cost(writes, TRUE))
             /\ anomalies' = anomalies + Cost(writes, TRUE)
             /\ audio' = done.audio
             /\ augmented_dir' = saved.dir
             /\ count' = IF saved.ret THEN count + 1 ELSE count
             /\ attempts' = Append(attempts, Attempt(SpeedTags[k], "time_stretch", 0,
                                                     audio, None, SaveOutcome(saved.ret)))
    /\ IF k < Len(SpeedFactors)
       THEN k' = k + 1 /\ pc' = "speed"
       ELSE k' = 0 /\ pc' = "noise_select"
    /\ UNCHANGED <<positive_files, background_files, i, total_augmented, report,
                   sr, chosen, exception, loaded, calls>>
    /\ UNCHANGED unitVars

\* lines 187-188: `if background_files:` and the random.sample of the loop header
noise_select ==
    /\ pc = "noise_select"
    /\ IF background_files = << >>
       THEN /\ pc' = "return"
            /\ UNCHANGED chosen
       ELSE /\ chosen' \in random_sample(background_files,
                                         Min(MaxNoiseVariants, Len(background_files)))
            /\ pc' = "noise"
    /\ k' = 0
    /\ UNCHANGED <<positive_files, background_files, i, total_augmented, augmented_dir,
                   report, audio, sr, count, exception, loaded, attempts, calls,
                   anomalies>>
    /\ UNCHANGED unitVars

\* after iteration k (0-based) of the loop over the chosen files
NoiseLoopNext ==
    IF k + 1 < Len(chosen)
    THEN k' = k + 1 /\ pc' = "noise"
    ELSE k' = 0 /\ pc' = "return"

\* an exception nothing catches leaves augment_sample, augment_all and main
Raise(name, noise) ==
    /\ exception' = name
    /\ pc' = "raised"
    /\ attempts' = Append(attempts, Attempt(NoiseTags[k + 1], "add_noise", chosen[k + 1],
                                            audio, noise, "raised"))
    /\ UNCHANGED <<augmented_dir, count, audio, k>>

\* lines 189-203: one iteration of the loop over the chosen background files
noise_variant ==
    /\ pc = "noise"
    /\ \E n \in 1..Len(NoiseReads) :
         LET answer == NoiseReads[n]
             got == load_audio(answer)
             tag == NoiseTags[k + 1]
             path == OutputPath("aug", positive_files[i], tag)
             res == IF got.sr # sr THEN resample(got.data, got.sr, sr)
                    ELSE [raised |-> "none", ret |-> got.data]
         IN  /\ Within(Cost(answer, BaselineNoise))
             /\ IF got.data = None
                THEN /\ anomalies' = anomalies + Cost(answer, BaselineNoise)
                     /\ attempts' = Append(attempts, Attempt(tag, "load_audio",
                                             chosen[k + 1], audio, None, "load_failed"))
                     /\ NoiseLoopNext
                     /\ UNCHANGED <<augmented_dir, count, audio, exception>>
                ELSE IF res.raised # "none"
                THEN /\ anomalies' = anomalies + Cost(answer, BaselineNoise)
                     /\ Raise(res.raised, got.data)
                ELSE \E start \in (IF np_len(res.ret) >= np_len(audio)
                                   THEN CropStarts(res.ret, np_len(audio)) ELSE {0}) :
                       LET mixed == add_noise(audio, res.ret, SnrDb, start)
                       IN  IF mixed.raised # "none"
                           THEN /\ anomalies' = anomalies + Cost(answer, BaselineNoise)
                                /\ Raise(mixed.raised, res.ret)
                           ELSE \E w \in 1..Len(WriteAnswers) :
                                  LET writes == WriteAnswers[w]
                                      saved == save_audio(augmented_dir, mixed.ret,
                                                          path, writes)
                                      cost == Cost(answer, BaselineNoise)
                                                + Cost(writes, TRUE)
                                  IN  /\ Within(cost)
                                      /\ anomalies' = anomalies + cost
                                      /\ audio' = mixed.audio
                                      /\ augmented_dir' = saved.dir
                                      /\ count' = IF saved.ret THEN count + 1 ELSE count
                                      /\ attempts' = Append(attempts,
                                            Attempt(tag, "add_noise", chosen[k + 1],
                                                    audio, res.ret,
                                                    SaveOutcome(saved.ret)))
                                      /\ NoiseLoopNext
                                      /\ UNCHANGED exception
    /\ UNCHANGED <<positive_files, background_files, i, total_augmented, report,
                   sr, chosen, loaded, calls>>
    /\ UNCHANGED unitVars

\* line 205 and lines 230-231: augment_sample returns count, the loop adds it
augment_sample_return ==
    /\ pc = "return"
    /\ total_augmented' = total_augmented + count
    /\ calls' = Append(calls, [file |-> positive_files[i], loaded |-> TRUE,
                               ret |-> count])
    /\ i' = i + 1
    /\ pc' = "loop"
    /\ UNCHANGED <<positive_files, background_files, augmented_dir, report, audio, sr,
                   count, k, chosen, exception, loaded, attempts, anomalies>>
    /\ UNCHANGED unitVars

\* lines 233-238: the loop is over, the totals are logged
augment_all_finish ==
    /\ pc = "loop"
    /\ i > Len(positive_files)
    /\ report' = [kind |-> "complete",
                  originals |-> Len(positive_files),
                  augmented |-> total_augmented,
                  size |-> Len(positive_files) + total_augmented]
    /\ pc' = "done"
    /\ UNCHANGED <<positive_files, background_files, i, total_augmented, augmented_dir,
                   audio, sr, count, k, chosen, exception, loaded, attempts, calls,
                   anomalies>>
    /\ UNCHANGED unitVars

Next ==
    \/ augment_all_start
    \/ augment_sample_load
    \/ save_original
    \/ volume_variant
    \/ speed_variant
    \/ noise_select
    \/ noise_variant
    \/ augment_sample_return
    \/ augment_all_finish

Spec == Init /\ [][Next]_vars

\* runs over a positive directory of at most one sample
InitSample ==
    /\ \E npos \in 0..1, nbg \in 0..MaxBackground : ProgInit(npos, nbg)
    /\ UnitIdle

SpecSample == InitSample /\ [][Next]_vars

\* whole runs over a background directory of at most MaxNoiseVariants files, in
\* which the environment deviates from the baseline at most MaxAnomalies - 1 times
InitRun ==
    /\ \E npos \in 0..MaxPositive, nbg \in 0..MaxNoiseVariants :
          ProgInitFrom(npos, nbg, 1)
    /\ UnitIdle

SpecRun == InitRun /\ [][Next]_vars

-----------------------------------------------------------------------------
(* Unit harness: the pure functions applied to every small array            *)

Samples == 0..MaxSample

SeqsUpTo(S, n) == UNION { [1..m -> S] : m \in 0..n }

Buffers ==
    { Mono(s) : s \in SeqsUpTo(Samples, MaxLen) }
      \cup { Stereo(r) : r \in SeqsUpTo([1..2 -> Samples], MaxLen) }

Rates10 == {9, 10, 11}

UnitInit ==
    /\ ProgInit(0, 0)
    /\ u_fn = "none"
    /\ u_args \in [buf : Buffers, L : 0..(MaxLen + 1), rate10 : Rates10]
    /\ u_ret = [raised |-> "none", ret |-> None, start |-> 0]

\* add_noise lines 97-105 applied to (noise, len(audio)) = (u_args.buf, u_args.L)
unit_align ==
    /\ u_fn = "none"
    /\ \E start \in (IF np_len(u_args.buf) >= u_args.L
                     THEN CropStarts(u_args.buf, u_args.L) ELSE {0}) :
         LET al == align(u_args.buf, u_args.L, start)
         IN  u_ret' = [raised |-> al.raised, ret |-> al.ret, start |-> start]
    /\ u_fn' = "align"
    /\ UNCHANGED <<u_args, progVars>>

\* time_stretch(u_args.buf, u_args.rate10 / 10)
unit_time_stretch ==
    /\ u_fn = "none"
    /\ u_ret' = [raised |-> "none",
                 ret |-> time_stretch(u_args.buf, u_args.rate10).ret, start |-> 0]
    /\ u_fn' = "time_stretch"
    /\ UNCHANGED <<u_args, progVars>>

UnitNext == unit_align \/ unit_time_stretch

SpecUnit == UnitInit /\ [][UnitNext]_vars

-----------------------------------------------------------------------------
(* Claims about the pure functions, under SpecUnit                          *)

\* C5: for len(n) >= L the aligned noise has length exactly L and is the
\* contiguous slice n[start : start+L] for some 0 <= start <= len(n) - L;
\* for len(n) = L it is n unchanged.
C5_CropIsContiguousSlice ==
    (u_fn = "align" /\ np_len(u_args.buf) >= u_args.L) =>
        /\ u_ret.raised = "none"
        /\ np_len(u_ret.ret) = u_args.L
        /\ \E s \in 0..(np_len(u_args.buf) - u_args.L) :
             u_ret.ret = [u_args.buf EXCEPT
                            !.rows = SubSeq(u_args.buf.rows, s + 1, s + u_args.L)]
        /\ np_len(u_args.buf) = u_args.L => u_ret.ret = u_args.buf

C5_Witness ==
    /\ u_fn = "align"
    /\ u_args.L >= 2
    /\ np_len(u_args.buf) > u_args.L
    /\ u_ret.start > 0
    /\ u_ret.ret.rows = SubSeq(u_args.buf.rows, u_ret.start + 1, u_ret.start + u_args.L)

\* C6: for 1 <= len(n) < L, mono or multi-channel, the aligned noise has length
\* exactly L, starts with n, and is n tiled end to end: sample i is n[i mod len(n)].
\* (For len(n) = 0 the claim's i mod len(n) has no value; that case is C2's.)
C6_TileCoversTarget ==
    (u_fn = "align" /\ 1 <= np_len(u_args.buf) /\ np_len(u_args.buf) < u_args.L) =>
        /\ u_ret.raised = "none"
        /\ np_len(u_ret.ret) = u_args.L
        /\ SubSeq(u_ret.ret.rows, 1, np_len(u_args.buf)) = u_args.buf.rows
        /\ \A j \in 1..u_args.L :
             u_ret.ret.rows[j] = u_args.buf.rows[((j - 1) % np_len(u_args.buf)) + 1]

\* C7: time_stretch(s, 1.0) is s: same length, same sample at every index.
C7_StretchByOneIsIdentity ==
    (u_fn = "time_stretch" /\ u_args.rate10 = 10) => u_ret.ret = u_args.buf

C7_Witness ==
    /\ u_fn = "time_stretch"
    /\ u_args.rate10 = 10
    /\ np_len(u_args.buf) = MaxLen
    /\ u_args.buf.rows[1] # u_args.buf.rows[2]
    /\ u_ret.ret = u_args.buf

-----------------------------------------------------------------------------
(* Claims about augment_sample and augment_all                              *)

\* the job of positive_files[i] has ended: it is about to return, or it raised
JobEnded == pc \in {"return", "raised"}

\* the files of the augmented directory that carry the base name of sample f
FilesOf(f) == { p \in DOMAIN augmented_dir : p.base_name = f }

Outcomes == { attempts[j].outcome : j \in 1..Len(attempts) }

Written == { j \in 1..Len(attempts) : attempts[j].outcome = "written" }

\* a noise buffer with no samples, or silent
Degenerate(noise) == np_len(noise) = 0 \/ PowerIsZero(noise)

RECURSIVE SumRet(_)
SumRet(cs) == IF cs = << >> THEN 0 ELSE cs[1].ret + SumRet(Tail(cs))

VariantOrder ==
    <<"original", "vol0.7", "vol1.3", "speed0.9", "speed1.1",
      "noise0", "noise1", "noise2">>

\* C1: a sample that loads, every chosen noise file loading and every save
\* succeeding: augment_sample writes exactly 5 + min(3, |B|) files and returns
\* the number of files written.
C1_AllVariantsWritten ==
    (JobEnded /\ "load_failed" \notin Outcomes /\ "save_failed" \notin Outcomes) =>
        /\ pc = "return"
        /\ count = 5 + Min(3, Len(background_files))
        /\ Cardinality(FilesOf(positive_files[i])) = count

\* C2: a failing variant (noise load failure, save failure, empty or silent
\* noise) adds nothing to count and aborts neither the later variants of the
\* sample nor the later samples: all of them are still attempted.
C2_VariantFailureIsolated ==
    /\ pc # "raised"
    /\ \A j \in 1..Len(attempts) :
         (attempts[j].transform = "add_noise" /\ Degenerate(attempts[j].noise))
            => attempts[j].outcome # "written"
    /\ pc \in {"original", "volume", "speed", "noise_select", "noise", "return"}
         => count = Cardinality(Written)
    /\ pc = "return" => Len(attempts) = 5 + Min(3, Len(background_files))
    /\ pc = "done" => Len(calls) = Len(positive_files)

\* C3: a positive sample that fails to load adds 0 to the total and writes no
\* file, and the run continues: every other sample is passed to augment_sample
\* and its count is added to the total.
C3_LoadFailureSkipsOnlyThatSample ==
    \A j \in 1..Len(calls) :
        ~calls[j].loaded =>
            /\ calls[j].ret = 0
            /\ FilesOf(calls[j].file) = {}
            /\ pc \in {"done", "raised"} =>
                 /\ Len(calls) = Len(positive_files)
                 /\ total_augmented = SumRet(calls)

\* C4: with no positive sample, whatever the background files, augment_all calls
\* augment_sample never, writes nothing, reports the empty dataset and returns
\* without raising.
C4_EmptyPositiveDirEndsCleanly ==
    Len(positive_files) = 0 =>
        /\ pc \in {"augment_all", "done"}
        /\ pc = "done" => report.kind = "empty"
        /\ calls = << >>
        /\ attempts = << >>
        /\ DOMAIN augmented_dir = {}
        /\ exception = "none"

C4_Witness ==
    /\ Len(positive_files) = 0
    /\ Len(background_files) = MaxBackground
    /\ pc = "done"
    /\ report.kind = "empty"

\* C8: with a non-empty background list B the noise step chooses exactly
\* min(3, |B|) pairwise distinct files of B, attempts each exactly once, and
\* handles the k-th chosen file under the tag noise<k>.
C8_NoiseFilesChosenOnce ==
    (JobEnded /\ background_files # << >>) =>
        /\ Len(chosen) = Min(3, Len(background_files))
        /\ \A x \in 1..Len(chosen) :
             /\ \E y \in 1..Len(background_files) : chosen[x] = background_files[y]
             /\ \A y \in 1..Len(chosen) : x # y => chosen[x] # chosen[y]
             /\ Cardinality({ j \in 1..Len(attempts) :
                                attempts[j].source = chosen[x] }) = 1
             /\ \A j \in 1..Len(attempts) :
                  attempts[j].source = chosen[x] => attempts[j].tag = NoiseTags[x]

\* C9: no variant whose samples are NaN or Inf is written to the output
\* directory (and counted), a silent noise clip included.
C9_NoNaNWritten ==
    \A p \in DOMAIN augmented_dir : ~augmented_dir[p].nan

\* C10: within a job the loaded array is never modified; the variants are
\* attempted in the order original, vol0.7, vol1.3, speed0.9, speed1.1,
\* noise0.., each from the unmodified source array.
C10_SourceBufferUntouched ==
    /\ audio = loaded
    /\ Len(attempts) <= Len(VariantOrder)
    /\ \A j \in 1..Len(attempts) :
         /\ attempts[j].input = loaded
         /\ attempts[j].tag = VariantOrder[j]

C10_Witness ==
    /\ pc = "return"
    /\ np_len(loaded) > 0
    /\ Len(attempts) = 8
    /\ attempts[8].outcome = "written"
    /\ attempts[8].input = loaded

\* C11: once augment_all has completed, the reported augmented total is the sum
\* of the counts the augment_sample jobs returned, the reported dataset size is
\* the number of positive files plus that total, and the total is the number of
\* distinct file names written: no two successful writes share a name.
C11_ReportMatchesFilesWritten ==
    (pc = "done" /\ report.kind = "complete") =>
        /\ Len(calls) = Len(positive_files)
        /\ \A j \in 1..Len(calls) : calls[j].file = positive_files[j]
        /\ report.augmented = SumRet(calls)
        /\ report.originals = Len(positive_files)
        /\ report.size = Len(positive_files) + SumRet(calls)
        /\ \A p, q \in DOMAIN augmented_dir : p # q => FileName(p) # FileName(q)
        /\ report.augmented = Cardinality({ FileName(p) : p \in DOMAIN augmented_dir })

C11_Witness ==
    /\ pc = "done"
    /\ report.kind = "complete"
    /\ Len(positive_files) = 2
    /\ report.augmented = 16
    /\ Cardinality({ FileName(p) : p \in DOMAIN augmented_dir }) = 16

====
